---- MODULE Spec2Model ----
(***************************************************************************)
(* Habit tracker (Crescendo): the persisted document data.json, the mutex  *)
(* of storage.go, the business rules of logic.go and the HTTP handlers of  *)
(* handlers.go.  Every request is a goroutine that loads the whole         *)
(* document, changes its private copy and saves it back; LoadData and      *)
(* SaveData each hold the mutex for their own duration only.               *)
(*                                                                         *)
(* Dates are day numbers (the string "2006-01-02" layout orders and        *)
(* subtracts like the day number it denotes); the empty date string is     *)
(* NoDate.  Slices are sequences, the history map is a function whose      *)
(* domain is the set of keys present.                                      *)
(***************************************************************************)
EXTENDS Integers, Sequences, FiniteSets, TLC

\* ------------------------------------------------------------------ bounds
MaxDay == 1            \* last calendar day of the concurrent runs
MaxRequests == 3       \* requests accepted in a concurrent run
MaxSeqDay == 2         \* last calendar day of the one-request-at-a-time runs
MaxSeqRequests == 3    \* requests accepted in a one-request-at-a-time run
MaxDecayDay == 4       \* last calendar day of the decay scenario
MaxHabits == 2         \* habits kept in the list
MaxQty == 6            \* week review is not taken beyond this quantity
MaxDecayRequests == 7  \* requests accepted in the decay scenario
MaxRenderRequests == 3 \* renders accepted in the concurrent-render scenario
MaxProbe == 8          \* largest starting quantity of the concurrent-render scenario
MaxReviewDay == 8      \* last calendar day of the week-review scenario
MaxReviewRequests == 3 \* requests accepted in the week-review scenario
MaxToggleDay == 1      \* last calendar day of the toggle scenario
MaxToggleRequests == 2 \* requests accepted in the toggle scenario
MaxStreakDay == 3      \* the day the streak scenario begins on
MaxStreakRequests == 1 \* renders accepted in the streak scenario
MaxFailRequests == 3   \* requests accepted in the storage-failure scenario
MaxDailyDay == 6       \* last calendar day of the daily-render scenario
MaxWeekRequests == 3   \* reviews accepted in the repeated-review scenario

Procs == {1, 2}        \* request goroutines

VARIABLES
    file,      \* data.json: [exists, doc, torn]
    today,     \* the calendar day time.Now() falls on
    mu,        \* storage.go mu: 0 when free, else the goroutine holding it
    pc,        \* pc[p]: where goroutine p is in its handler
    req,       \* req[p]: the form values of the request p serves
    data,      \* data[p]: the *AppData p got from LoadData
    resp,      \* resp[p]: what p's last request answered
    nreq,      \* requests accepted so far
    day0,      \* history variable: the document as the run began
    view,      \* view[p]: the TemplateData of the page p rendered last
    issued     \* history variable: the habit ids data.json ever held

vars == <<file, today, mu, pc, req, data, resp, nreq, day0, view, issued>>

\* ------------------------------------------------------------------ values
\* The empty date string "".
NoDate == -1000

\* days >= 7 of NeedsWeekReview
ReviewPeriod == 7

\* qty := 5 of HandleAddHabit
DefaultQuantity == 5

\* The zero DayRecord a missing map key reads as.  Date always equals the map
\* key and WeekReviewDone is never written: both are left out.  A nil and an
\* empty slice are the same sequence.
ZeroDayRecord == [completedHabits |-> <<>>, penaltyAppliedForHabits |-> <<>>]

NoHistory == [d \in {} |-> ZeroDayRecord]

\* The AppData LoadData builds when data.json does not exist.
EmptyData ==
    [habits |-> <<>>, history |-> NoHistory,
     lastWeekReview |-> NoDate, createdAt |-> NoDate]

\* data.History[d]
HistoryAt(d, day) ==
    IF day \in DOMAIN d.history THEN d.history[day] ELSE ZeroDayRecord

\* data.History[day] = rec
HistoryPut(d, day, rec) ==
    [d EXCEPT !.history =
        [x \in (DOMAIN d.history) \cup {day} |->
            IF x = day THEN rec ELSE d.history[x]]]

\* Form values that are parsed as numbers: a decimal string, "" or other text.
Num(n) == [text |-> "int", val |-> n]
Blank == [text |-> "empty", val |-> 0]
Junk == [text |-> "junk", val |-> 0]

\* strconv.Atoi
Atoi(s) ==
    IF s.text = "int" THEN [n |-> s.val, err |-> FALSE]
    ELSE [n |-> 0, err |-> TRUE]

\* The form value is taken as it comes.
TrimSpace_None(s) == s

\* strings.TrimSpace on the names and units the requests carry
TrimSpace(s) ==
    IF s = " " THEN "" ELSE IF s = " km " THEN "km" ELSE s

NoForm ==
    [kind |-> "none", habit_id |-> Blank, name |-> "", quantity |-> Blank,
     unit |-> "", action |-> ""]

Form(kind, id, name, qty, unit, action) ==
    [kind |-> kind, habit_id |-> id, name |-> name, quantity |-> qty,
     unit |-> unit, action |-> action]

\* ------------------------------------------------------------------ logic.go
Today == today

Yesterday == today - 1

ApplyMissPenalty_NoFloor(h) ==
    IF h.quantity >= 3 THEN [h EXCEPT !.quantity = @ - 2]
    ELSE [h EXCEPT !.quantity = @ - 1]

ApplyMissPenalty_StepOne(h) ==
    IF h.quantity <= 1 THEN h ELSE [h EXCEPT !.quantity = @ - 1]

\* The penalty of 2 is added instead of subtracted.
ApplyMissPenalty_WrongSign(h) ==
    IF h.quantity <= 1 THEN h
    ELSE IF h.quantity >= 3 THEN [h EXCEPT !.quantity = @ + 2]
    ELSE [h EXCEPT !.quantity = @ - 1]

\* The floor is tested one too high: a habit at 2 is left at 2.
ApplyMissPenalty_FloorTwo(h) ==
    IF h.quantity <= 2 THEN h
    ELSE IF h.quantity >= 3 THEN [h EXCEPT !.quantity = @ - 2]
    ELSE [h EXCEPT !.quantity = @ - 1]

ApplyMissPenalty(h) ==
    IF h.quantity <= 1 THEN h
    ELSE IF h.quantity >= 3 THEN [h EXCEPT !.quantity = @ - 2]
    ELSE [h EXCEPT !.quantity = @ - 1]

containsInt(slice, id) == \E i \in 1..Len(slice) : slice[i] = id

\* One pass of the loop of ProcessYesterdayMisses over data.Habits[i..].
RECURSIVE MissLoop_SkipFloor(_, _, _, _)
RECURSIVE MissLoop(_, _, _, _)
\* A habit already at quantity 1 is passed over and its id not recorded.
MissLoop_SkipFloor(habits, rec, i, changed) ==
    IF i > Len(habits)
    THEN [habits |-> habits, rec |-> rec, changed |-> changed]
    ELSE LET h == habits[i]
             completed == containsInt(rec.completedHabits, h.id)
             alreadyApplied == containsInt(rec.penaltyAppliedForHabits, h.id)
         IN  IF ~completed /\ ~alreadyApplied /\ h.quantity > 1
             THEN MissLoop_SkipFloor([habits EXCEPT ![i] = ApplyMissPenalty(h)],
                           [rec EXCEPT !.penaltyAppliedForHabits = Append(@, h.id)],
                           i + 1, TRUE)
             ELSE MissLoop_SkipFloor(habits, rec, i + 1, changed)

MissLoop(habits, rec, i, changed) ==
    IF i > Len(habits)
    THEN [habits |-> habits, rec |-> rec, changed |-> changed]
    ELSE LET h == habits[i]
             completed == containsInt(rec.completedHabits, h.id)
             alreadyApplied == containsInt(rec.penaltyAppliedForHabits, h.id)
         IN  IF ~completed /\ ~alreadyApplied
             THEN MissLoop([habits EXCEPT ![i] = ApplyMissPenalty(h)],
                           [rec EXCEPT !.penaltyAppliedForHabits = Append(@, h.id)],
                           i + 1, TRUE)
             ELSE MissLoop(habits, rec, i + 1, changed)

\* The day before yesterday is caught up first.
ProcessYesterdayMisses_Replay(d, yesterday) ==
    LET r0 == MissLoop(d.habits, HistoryAt(d, yesterday - 1), 1, FALSE)
        d0 == IF r0.changed
              THEN HistoryPut([d EXCEPT !.habits = r0.habits], yesterday - 1, r0.rec)
              ELSE d
        r == MissLoop(d0.habits, HistoryAt(d0, yesterday), 1, FALSE)
    IN  IF r.changed
        THEN HistoryPut([d0 EXCEPT !.habits = r.habits], yesterday, r.rec)
        ELSE d0

ProcessYesterdayMisses_NoRecord(d, yesterday) ==
    LET r == MissLoop(d.habits, HistoryAt(d, yesterday), 1, FALSE)
    IN  [d EXCEPT !.habits = r.habits]

ProcessYesterdayMisses(d, yesterday) ==
    LET r == MissLoop(d.habits, HistoryAt(d, yesterday), 1, FALSE)
    IN  IF r.changed
        THEN HistoryPut([d EXCEPT !.habits = r.habits], yesterday, r.rec)
        ELSE d

\* The loop increments a copy of each habit (for _, h := range data.Habits).
CompleteWeekReview_RangeCopy(d, day) == [d EXCEPT !.lastWeekReview = day]

CompleteWeekReview(d, day) ==
    [d EXCEPT !.habits = [i \in 1..Len(d.habits) |->
                             [d.habits[i] EXCEPT !.quantity = @ + 1]],
              !.lastWeekReview = day]

\* The index of the habit FindHabitByID points at, 0 for nil.
FindHabitByID(d, id) ==
    IF \E i \in 1..Len(d.habits) : d.habits[i].id = id
    THEN CHOOSE i \in 1..Len(d.habits) :
            /\ d.habits[i].id = id
            /\ \A j \in 1..(i - 1) : d.habits[j].id # id
    ELSE 0

RECURSIVE MaxID(_, _, _)
MaxID(habits, i, max) ==
    IF i > Len(habits) THEN max
    ELSE MaxID(habits, i + 1, IF habits[i].id > max THEN habits[i].id ELSE max)

NextHabitID_NoIncrement(d) == MaxID(d.habits, 1, 0)

NextHabitID(d) == MaxID(d.habits, 1, 0) + 1

\* DaysBetween: both dates parse, the difference is a whole number of days.
DaysBetween(start, end) == IF end - start < 0 THEN 0 ELSE end - start

GetOrSetLastWeekReview_FallbackToday(d) ==
    IF d.lastWeekReview # NoDate THEN d.lastWeekReview
    ELSE IF d.createdAt # NoDate THEN d.createdAt
    ELSE Today

GetOrSetLastWeekReview(d) ==
    IF d.lastWeekReview # NoDate THEN d.lastWeekReview
    ELSE IF d.createdAt # NoDate THEN d.createdAt
    ELSE Today - 7

NeedsWeekReview_Over(d) == DaysBetween(GetOrSetLastWeekReview(d), Today) > 7

NeedsWeekReview(d) == DaysBetween(GetOrSetLastWeekReview(d), Today) >= 7

\* The loop of GetStreakForHabit: t is the day looked at, streak the count.
RECURSIVE StreakLoop(_, _, _, _)
StreakLoop(d, habitID, t, streak) ==
    IF /\ t \in DOMAIN d.history
       /\ containsInt(d.history[t].completedHabits, habitID)
    THEN StreakLoop(d, habitID, t - 1, streak + 1)
    ELSE streak

\* The count starts at today instead of yesterday.
GetStreakForHabit_FromToday(d, habitID) == StreakLoop(d, habitID, Today, 0)

GetStreakForHabit(d, habitID) == StreakLoop(d, habitID, Today - 1, 0)

\* ------------------------------------------------------------------ storage.go
\* What LoadData returns for the file as it is.  json.Unmarshal gives back the
\* habits, records and dates json.MarshalIndent wrote (a nil slice is written
\* as null or omitted and read back as nil).
LoadData(f) == IF f.exists THEN f.doc ELSE EmptyData

\* What SaveData leaves in the file.
SaveData(d) == [exists |-> TRUE, doc |-> d, torn |-> FALSE]

\* data.json after os.WriteFile truncated it and could not write the bytes:
\* json.Unmarshal fails on it.
TornFile == [exists |-> TRUE, doc |-> EmptyData, torn |-> TRUE]

\* What a failing os.WriteFile can leave of the file f: f as it was (it
\* could not be opened) or the truncated file (the write failed).
WriteFileFails(f) == {f, TornFile}

Lock_NoWait(p) == mu' = p

Lock(p) == mu = 0 /\ mu' = p

Unlock(p) == mu' = 0

\* ------------------------------------------------------------------ handlers.go
\* What each handler does to the AppData it loaded, before it saves.

\* HandleCompleteHabit, once the habit is found.
\* The filter of the uncomplete branch keeps the habit instead of dropping it.
CompleteHabit_KeepOnly(d, habitID, action, day) ==
    LET rec == HistoryAt(d, day)
        newList ==
            IF action = "uncomplete"
            THEN SelectSeq(rec.completedHabits, LAMBDA id : id = habitID)
            ELSE IF containsInt(rec.completedHabits, habitID)
                 THEN rec.completedHabits
                 ELSE Append(rec.completedHabits, habitID)
    IN  HistoryPut(d, day, [rec EXCEPT !.completedHabits = newList])

\* The complete branch appends without looking for the id.
CompleteHabit_AppendAlways(d, habitID, action, day) ==
    LET rec == HistoryAt(d, day)
        newList ==
            IF action = "uncomplete"
            THEN SelectSeq(rec.completedHabits, LAMBDA id : id # habitID)
            ELSE Append(rec.completedHabits, habitID)
    IN  HistoryPut(d, day, [rec EXCEPT !.completedHabits = newList])

CompleteHabit(d, habitID, action, day) ==
    LET rec == HistoryAt(d, day)
        newList ==
            IF action = "uncomplete"
            THEN SelectSeq(rec.completedHabits, LAMBDA id : id # habitID)
            ELSE IF containsInt(rec.completedHabits, habitID)
                 THEN rec.completedHabits
                 ELSE Append(rec.completedHabits, habitID)
    IN  HistoryPut(d, day, [rec EXCEPT !.completedHabits = newList])

\* The quantity HandleAddHabit takes from the form.
AddQuantity(f) ==
    IF f.quantity.text # "empty" /\ ~Atoi(f.quantity).err /\ Atoi(f.quantity).n > 0
    THEN Atoi(f.quantity).n
    ELSE DefaultQuantity

\* HandleAddHabit, once the name is accepted.
AddHabit(d, f, now) ==
    LET unit == IF TrimSpace(f.unit) = "" THEN "units" ELSE TrimSpace(f.unit)
        h == [id |-> NextHabitID(d), name |-> TrimSpace(f.name),
              quantity |-> AddQuantity(f), unit |-> unit, createdAt |-> now]
    IN  [d EXCEPT !.habits = Append(@, h)]

\* HandleEditHabit, once the habit is found at index i.
EditHabit(d, i, f) ==
    LET h0 == d.habits[i]
        h1 == [h0 EXCEPT !.name = TrimSpace(f.name)]
        h2 == IF f.quantity.text # "empty" /\ ~Atoi(f.quantity).err
                 /\ Atoi(f.quantity).n > 0
              THEN [h1 EXCEPT !.quantity = Atoi(f.quantity).n]
              ELSE h1
        h3 == IF TrimSpace(f.unit) # ""
              THEN [h2 EXCEPT !.unit = TrimSpace(f.unit)]
              ELSE h2
    IN  [d EXCEPT !.habits[i] = h3]

\* The filter keeps the habit with the id instead of dropping it.
DeleteHabit_KeepOnly(d, f) ==
    [d EXCEPT !.habits = SelectSeq(@, LAMBDA h : h.id = Atoi(f.habit_id).n)]

\* HandleDeleteHabit: the Atoi error is dropped, habitID is then 0.
DeleteHabit(d, f) ==
    [d EXCEPT !.habits = SelectSeq(@, LAMBDA h : h.id # Atoi(f.habit_id).n)]

\* The ids of the habits of d.
HabitIDs(d) == {d.habits[i].id : i \in 1..Len(d.habits)}

\* HandleIndex: the TemplateData fields computed by logic.go, needsReview and
\* the streaks map.
TemplateData(d) ==
    [needsWeekReview |-> NeedsWeekReview(d),
     streaks |-> [id \in HabitIDs(d) |-> GetStreakForHabit(d, id)]]

\* No page was rendered.
NoView == [needsWeekReview |-> FALSE, streaks |-> [id \in {} |-> 0]]

\* ------------------------------------------------------------------ requests
\* A request is accepted by an idle goroutine; limit bounds the run.
Accept(p, limit) ==
    /\ pc[p] = "idle"
    /\ nreq < limit
    /\ nreq' = nreq + 1

\* The handler answers before it loads anything.
Reject(p, answer) ==
    /\ resp' = [resp EXCEPT ![p] = answer]
    /\ UNCHANGED <<file, today, mu, pc, req, data, day0, view, issued>>

\* The handler enters LoadData: mu.Lock().
EnterLoad(p, f) ==
    /\ Lock(p)
    /\ pc' = [pc EXCEPT ![p] = "loading"]
    /\ req' = [req EXCEPT ![p] = f]
    /\ resp' = [resp EXCEPT ![p] = "none"]
    /\ view' = [view EXCEPT ![p] = NoView]
    /\ UNCHANGED <<file, today, data, day0, issued>>

\* The handler returns: the goroutine is idle again.
Answer(p, answer) ==
    /\ pc' = [pc EXCEPT ![p] = "idle"]
    /\ req' = [req EXCEPT ![p] = NoForm]
    /\ data' = [data EXCEPT ![p] = EmptyData]
    /\ resp' = [resp EXCEPT ![p] = answer]

\* The handler changed its AppData to d and enters SaveData: mu.Lock().
EnterSave(p, d) ==
    /\ Lock(p)
    /\ data' = [data EXCEPT ![p] = d]
    /\ pc' = [pc EXCEPT ![p] = "saving"]
    /\ UNCHANGED <<file, today, req, resp, nreq, day0, view, issued>>

Loaded(p, kind) == pc[p] = "loaded" /\ req[p].kind = kind

\* LoadData returns: the file is read and mu released.
LoadDataReturn(p) ==
    /\ pc[p] = "loading"
    /\ ~file.torn
    /\ data' = [data EXCEPT ![p] = LoadData(file)]
    /\ Unlock(p)
    /\ pc' = [pc EXCEPT ![p] = "loaded"]
    /\ UNCHANGED <<file, today, req, resp, nreq, day0, view, issued>>

\* The last SaveData of a handler returns: the file is written, mu released,
\* and the handler answers; HandleIndex builds the page from its AppData.
SaveDataReturn(p) ==
    /\ pc[p] = "saving"
    /\ file' = SaveData(data[p])
    /\ issued' = issued \cup HabitIDs(data[p])
    /\ Unlock(p)
    /\ Answer(p, IF req[p].kind = "index" THEN "page" ELSE "redirect")
    /\ view' = [view EXCEPT ![p] = IF req[p].kind = "index"
                                    THEN TemplateData(data[p]) ELSE NoView]
    /\ UNCHANGED <<today, nreq, day0>>

\* LoadData returns the error of json.Unmarshal: the handler answers 500.
LoadDataFail(p) ==
    /\ pc[p] = "loading"
    /\ file.torn
    /\ Unlock(p)
    /\ Answer(p, "500")
    /\ UNCHANGED <<file, today, nreq, day0, view, issued>>

\* The last SaveData of a handler returns the error of os.WriteFile: the
\* handler answers 500, HandleDeleteHabit drops the error and redirects.
SaveDataFail(p) ==
    /\ pc[p] = "saving"
    /\ file' \in WriteFileFails(file)
    /\ Unlock(p)
    /\ Answer(p, IF req[p].kind = "delete" THEN "redirect" ELSE "500")
    /\ UNCHANGED <<today, nreq, day0, view, issued>>

\* GET /
HandleIndex(p, limit) ==
    /\ Accept(p, limit)
    /\ EnterLoad(p, Form("index", Blank, "", Blank, "", ""))

\* HandleIndex: CreatedAt is empty, it is set and saved.
IndexSetCreatedAt(p) ==
    /\ Loaded(p, "index")
    /\ data[p].createdAt = NoDate
    /\ Lock(p)
    /\ data' = [data EXCEPT ![p].createdAt = Today]
    /\ pc' = [pc EXCEPT ![p] = "saving_created"]
    /\ UNCHANGED <<file, today, req, resp, nreq, day0, view, issued>>

\* HandleIndex: _ = SaveData(data) returns.
SaveCreatedReturn(p) ==
    /\ pc[p] = "saving_created"
    /\ file' = SaveData(data[p])
    /\ Unlock(p)
    /\ pc' = [pc EXCEPT ![p] = "saved_created"]
    /\ UNCHANGED <<today, req, data, resp, nreq, day0, view, issued>>

\* HandleIndex: _ = SaveData(data) returns an error, which is dropped.
SaveCreatedFail(p) ==
    /\ pc[p] = "saving_created"
    /\ file' \in WriteFileFails(file)
    /\ Unlock(p)
    /\ pc' = [pc EXCEPT ![p] = "saved_created"]
    /\ UNCHANGED <<today, req, data, resp, nreq, day0, view, issued>>

\* HandleIndex: ProcessYesterdayMisses(data), then SaveData.
IndexProcess(p) ==
    /\ \/ Loaded(p, "index") /\ data[p].createdAt # NoDate
       \/ pc[p] = "saved_created"
    /\ EnterSave(p, ProcessYesterdayMisses(data[p], Yesterday))

\* POST /complete
HandleCompleteHabit(p, f, limit) ==
    /\ Accept(p, limit)
    /\ IF Atoi(f.habit_id).err
       THEN Reject(p, "error=invalid")
       ELSE EnterLoad(p, f)

CompleteApply(p) ==
    /\ Loaded(p, "complete")
    /\ IF FindHabitByID(data[p], Atoi(req[p].habit_id).n) = 0
       THEN /\ Answer(p, "error=notfound")
            /\ UNCHANGED <<file, today, mu, nreq, day0, view, issued>>
       ELSE EnterSave(p, CompleteHabit(data[p], Atoi(req[p].habit_id).n,
                                       req[p].action, Today))

\* The review is taken only when it is due.
HandleWeekReview_Guarded(p, limit) ==
    /\ NeedsWeekReview(LoadData(file))
    /\ Accept(p, limit)
    /\ EnterLoad(p, Form("review", Blank, "", Blank, "", ""))

\* POST /week-review
HandleWeekReview(p, limit) ==
    /\ Accept(p, limit)
    /\ EnterLoad(p, Form("review", Blank, "", Blank, "", ""))

ReviewApply(p) ==
    /\ Loaded(p, "review")
    /\ \A i \in 1..Len(data[p].habits) : data[p].habits[i].quantity < MaxQty
    /\ EnterSave(p, CompleteWeekReview(data[p], Today))

\* POST /add-habit
HandleAddHabit(p, f, limit) ==
    /\ Accept(p, limit)
    /\ IF TrimSpace(f.name) = ""
       THEN Reject(p, "error=name")
       ELSE EnterLoad(p, f)

AddApply(p) ==
    /\ Loaded(p, "add")
    /\ Len(data[p].habits) < MaxHabits
    /\ EnterSave(p, AddHabit(data[p], req[p], Today))

\* POST /edit-habit
HandleEditHabit(p, f, limit) ==
    /\ Accept(p, limit)
    /\ IF Atoi(f.habit_id).err
       THEN Reject(p, "error=invalid")
       ELSE IF TrimSpace(f.name) = ""
            THEN Reject(p, "error=name")
            ELSE EnterLoad(p, f)

EditApply(p) ==
    /\ Loaded(p, "edit")
    /\ IF FindHabitByID(data[p], Atoi(req[p].habit_id).n) = 0
       THEN /\ Answer(p, "error=notfound")
            /\ UNCHANGED <<file, today, mu, nreq, day0, view, issued>>
       ELSE EnterSave(p, EditHabit(data[p],
                                   FindHabitByID(data[p], Atoi(req[p].habit_id).n),
                                   req[p]))

\* POST /delete-habit
HandleDeleteHabit(p, f, limit) ==
    /\ Accept(p, limit)
    /\ EnterLoad(p, f)

DeleteApply(p) ==
    /\ Loaded(p, "delete")
    /\ EnterSave(p, DeleteHabit(data[p], req[p]))

\* Midnight passes.
Tick(lastDay) ==
    /\ today < lastDay
    /\ today' = today + 1
    /\ UNCHANGED <<file, mu, pc, req, data, resp, nreq, day0, view, issued>>

\* The steps every accepted request goes through.
Step(p) ==
    \/ LoadDataReturn(p)
    \/ IndexSetCreatedAt(p)
    \/ SaveCreatedReturn(p)
    \/ IndexProcess(p)
    \/ CompleteApply(p)
    \/ ReviewApply(p)
    \/ AddApply(p)
    \/ EditApply(p)
    \/ DeleteApply(p)
    \/ SaveDataReturn(p)

\* ------------------------------------------------------------------ runs
Idle ==
    /\ mu = 0
    /\ pc = [p \in Procs |-> "idle"]
    /\ req = [p \in Procs |-> NoForm]
    /\ data = [p \in Procs |-> EmptyData]
    /\ resp = [p \in Procs |-> "none"]
    /\ view = [p \in Procs |-> NoView]
    /\ nreq = 0

\* The server starts with no data.json.
Init ==
    /\ file = [exists |-> FALSE, doc |-> EmptyData, torn |-> FALSE]
    /\ today = 0
    /\ day0 = EmptyData
    /\ issued = {}
    /\ Idle

\* Concurrent requests.
HabitIds == {Num(1), Num(2)}

CompleteForms ==
    {Form("complete", id, "", Blank, "", a) : id \in HabitIds, a \in {"", "uncomplete"}}

AddForms ==
    {Form("add", Blank, "run", q, "", "") : q \in {Blank, Num(2)}}

EditForms ==
    {Form("edit", id, "walk", q, "", "") : id \in {Num(1)}, q \in {Blank, Num(1)}}

DeleteForms ==
    {Form("delete", id, "", Blank, "", "") : id \in {Num(1)}}

Next ==
    \/ \E p \in Procs : HandleIndex(p, MaxRequests)
    \/ \E p \in Procs : \E f \in CompleteForms : HandleCompleteHabit(p, f, MaxRequests)
    \/ \E p \in Procs : HandleWeekReview(p, MaxRequests)
    \/ \E p \in Procs : \E f \in AddForms : HandleAddHabit(p, f, MaxRequests)
    \/ \E p \in Procs : \E f \in EditForms : HandleEditHabit(p, f, MaxRequests)
    \/ \E p \in Procs : \E f \in DeleteForms : HandleDeleteHabit(p, f, MaxRequests)
    \/ \E p \in Procs : Step(p)
    \/ Tick(MaxDay)

Spec == Init /\ [][Next]_vars

\* One request at a time: goroutine 1 alone serves every request.
SeqIds == {Num(1), Num(2), Junk}

SeqQuantities == {Blank, Junk, Num(0), Num(0 - 1), Num(1), Num(3)}

SeqCompleteForms ==
    {Form("complete", id, "", Blank, "", a) : id \in SeqIds, a \in {"", "uncomplete"}}

SeqAddForms ==
    {Form("add", Blank, "run", q, "", "") : q \in SeqQuantities}
        \cup {Form("add", Blank, " ", Num(3), "", "")}

SeqEditForms ==
    {Form("edit", id, "walk", q, u, "") :
        id \in {Num(1), Num(2)}, q \in {Blank, Num(0), Num(2)}, u \in {"", " km "}}
        \cup {Form("edit", Junk, "walk", Blank, "", ""),
              Form("edit", Num(1), "", Num(2), "", "")}

SeqDeleteForms ==
    {Form("delete", id, "", Blank, "", "") : id \in SeqIds}

NextSeq ==
    \/ HandleIndex(1, MaxSeqRequests)
    \/ \E f \in SeqCompleteForms : HandleCompleteHabit(1, f, MaxSeqRequests)
    \/ HandleWeekReview(1, MaxSeqRequests)
    \/ \E f \in SeqAddForms : HandleAddHabit(1, f, MaxSeqRequests)
    \/ \E f \in SeqEditForms : HandleEditHabit(1, f, MaxSeqRequests)
    \/ \E f \in SeqDeleteForms : HandleDeleteHabit(1, f, MaxSeqRequests)
    \/ Step(1)
    \/ Tick(MaxSeqDay)

SpecSeq == Init /\ [][NextSeq]_vars

\* The miss-penalty decay alone: habits are added with the default quantity,
\* the view is rendered, days pass; nothing is completed, edited or reviewed.
DecayForms == {Form("add", Blank, "pushups", Blank, "", "")}

NextDecay ==
    \/ HandleIndex(1, MaxDecayRequests)
    \/ \E f \in DecayForms : HandleAddHabit(1, f, MaxDecayRequests)
    \/ LoadDataReturn(1)
    \/ IndexSetCreatedAt(1)
    \/ SaveCreatedReturn(1)
    \/ IndexProcess(1)
    \/ AddApply(1)
    \/ SaveDataReturn(1)
    \/ Tick(MaxDecayDay)

SpecDecay == Init /\ [][NextDecay]_vars

\* Concurrent renders of the view on one day.  The run begins on day 1 with a
\* document holding habits added on day 0, some of them completed on day 0,
\* and no penalty yet applied for day 0.
IdsTo(n) == [i \in 1..n |-> i]

StartDoc(n, q, done, created) ==
    [habits |-> [i \in 1..n |->
                    [id |-> i, name |-> "run", quantity |-> q[i],
                     unit |-> "units", createdAt |-> 0]],
     history |-> IF done = {} THEN NoHistory
                 ELSE [d \in {0} |->
                          [completedHabits |->
                               SelectSeq(IdsTo(n), LAMBDA id : id \in done),
                           penaltyAppliedForHabits |-> <<>>]],
     lastWeekReview |-> NoDate,
     createdAt |-> created]

InitRender ==
    /\ \E n \in 1..MaxHabits : \E q \in [1..n -> 1..MaxProbe] :
       \E done \in SUBSET (1..n) : \E created \in {NoDate, 0} :
          /\ file = SaveData(StartDoc(n, q, done, created))
          /\ day0 = StartDoc(n, q, done, created)
          /\ issued = HabitIDs(StartDoc(n, q, done, created))
    /\ today = 1
    /\ Idle

NextRender ==
    \/ \E p \in Procs : HandleIndex(p, MaxRenderRequests)
    \/ \E p \in Procs : LoadDataReturn(p)
    \/ \E p \in Procs : IndexSetCreatedAt(p)
    \/ \E p \in Procs : SaveCreatedReturn(p)
    \/ \E p \in Procs : IndexProcess(p)
    \/ \E p \in Procs : SaveDataReturn(p)

SpecRender == InitRender /\ [][NextRender]_vars

\* The week-review cycle: a habit is added, the view is rendered, the review
\* is completed, and enough days pass for a review to fall due.
ReviewForms == {Form("add", Blank, "pushups", Blank, "", "")}

NextReview ==
    \/ HandleIndex(1, MaxReviewRequests)
    \/ HandleWeekReview(1, MaxReviewRequests)
    \/ \E f \in ReviewForms : HandleAddHabit(1, f, MaxReviewRequests)
    \/ LoadDataReturn(1)
    \/ IndexSetCreatedAt(1)
    \/ SaveCreatedReturn(1)
    \/ IndexProcess(1)
    \/ ReviewApply(1)
    \/ AddApply(1)
    \/ SaveDataReturn(1)
    \/ Tick(MaxReviewDay)

SpecReview == Init /\ [][NextReview]_vars

\* Toggling completions: the run begins on day 0 with a document holding
\* habits added that day, some of them already completed; complete and
\* uncomplete requests arrive from both goroutines, and midnight may pass.
ToggleForms ==
    {Form("complete", Num(id), "", Blank, "", a) :
        id \in 1..MaxHabits, a \in {"", "uncomplete"}}

ToggleDoc(n, done) == StartDoc(n, [i \in 1..n |-> DefaultQuantity], done, 0)

InitToggle ==
    /\ \E n \in 1..MaxHabits : \E done \in SUBSET (1..n) :
          /\ file = SaveData(ToggleDoc(n, done))
          /\ day0 = ToggleDoc(n, done)
          /\ issued = HabitIDs(ToggleDoc(n, done))
    /\ today = 0
    /\ Idle

NextToggle ==
    \/ \E p \in Procs : \E f \in ToggleForms :
          HandleCompleteHabit(p, f, MaxToggleRequests)
    \/ \E p \in Procs : LoadDataReturn(p)
    \/ \E p \in Procs : CompleteApply(p)
    \/ \E p \in Procs : SaveDataReturn(p)
    \/ Tick(MaxToggleDay)

SpecToggle == InitToggle /\ [][NextToggle]_vars

\* Streaks: the run begins on day MaxStreakDay with a document whose history
\* has, for any of the days up to today, a record with any of the habits
\* completed; the view is rendered.
StreakDoc(n, days, done) ==
    [habits |-> [i \in 1..n |->
                    [id |-> i, name |-> "run", quantity |-> DefaultQuantity,
                     unit |-> "units", createdAt |-> 0]],
     history |-> [d \in days |->
                     [completedHabits |->
                          SelectSeq(IdsTo(n), LAMBDA id : id \in done[d]),
                      penaltyAppliedForHabits |-> <<>>]],
     lastWeekReview |-> NoDate,
     createdAt |-> 0]

InitStreak ==
    /\ \E n \in 1..MaxHabits : \E days \in SUBSET (0..MaxStreakDay) :
       \E done \in [days -> SUBSET (1..n)] :
          /\ file = SaveData(StreakDoc(n, days, done))
          /\ day0 = StreakDoc(n, days, done)
          /\ issued = HabitIDs(StreakDoc(n, days, done))
    /\ today = MaxStreakDay
    /\ Idle

NextStreak ==
    \/ HandleIndex(1, MaxStreakRequests)
    \/ LoadDataReturn(1)
    \/ IndexProcess(1)
    \/ SaveDataReturn(1)

SpecStreak == InitStreak /\ [][NextStreak]_vars

\* Storage failures: requests of every kind arrive one at a time, and any
\* os.WriteFile may fail.
FailComplete == Form("complete", Num(1), "", Blank, "", "")
FailAdd == Form("add", Blank, "run", Blank, "", "")
FailEdit == Form("edit", Num(1), "walk", Blank, "", "")
FailDelete == Form("delete", Num(1), "", Blank, "", "")

NextFail ==
    \/ HandleIndex(1, MaxFailRequests)
    \/ HandleWeekReview(1, MaxFailRequests)
    \/ HandleCompleteHabit(1, FailComplete, MaxFailRequests)
    \/ HandleAddHabit(1, FailAdd, MaxFailRequests)
    \/ HandleEditHabit(1, FailEdit, MaxFailRequests)
    \/ HandleDeleteHabit(1, FailDelete, MaxFailRequests)
    \/ Step(1)
    \/ LoadDataFail(1)
    \/ SaveDataFail(1)
    \/ SaveCreatedFail(1)

SpecFail == Init /\ [][NextFail]_vars

\* Daily renders: the run begins on day 1 with habits added on day 0 and
\* never completed; the view is rendered once on every day, and midnight
\* passes once the day's render has answered.  Nothing is completed, edited
\* or reviewed.
RenderedToday ==
    /\ pc[1] = "idle"
    /\ \A i \in 1..Len(LoadData(file).habits) :
          containsInt(HistoryAt(LoadData(file), Yesterday).penaltyAppliedForHabits,
                      LoadData(file).habits[i].id)

InitDaily ==
    /\ \E n \in 1..MaxHabits : \E q \in [1..n -> 1..MaxProbe] :
          /\ file = SaveData(StartDoc(n, q, {}, 0))
          /\ day0 = StartDoc(n, q, {}, 0)
          /\ issued = HabitIDs(StartDoc(n, q, {}, 0))
    /\ today = 1
    /\ Idle

DailyRender == ~RenderedToday /\ HandleIndex(1, MaxDailyDay)

DailyTick == RenderedToday /\ Tick(MaxDailyDay)

NextDaily ==
    \/ DailyRender
    \/ LoadDataReturn(1)
    \/ IndexProcess(1)
    \/ SaveDataReturn(1)
    \/ DailyTick

\* The handler's goroutine runs to its end, and the day's render and the
\* next midnight come.
SpecDaily == InitDaily /\ [][NextDaily]_vars /\ WF_vars(NextDaily)

\* Repeated reviews: the run begins with a document created on day 0, on
\* day 0 (no review is due) or on day ReviewPeriod (a review is due), and
\* POST /week-review arrives again and again on that day.
InitWeek ==
    /\ \E n \in 1..MaxHabits :
       \E q \in [1..n -> 1..(MaxQty - MaxWeekRequests)] :
          /\ file = SaveData(StartDoc(n, q, {}, 0))
          /\ day0 = StartDoc(n, q, {}, 0)
          /\ issued = HabitIDs(StartDoc(n, q, {}, 0))
    /\ today \in {0, ReviewPeriod}
    /\ Idle

NextWeek ==
    \/ HandleWeekReview(1, MaxWeekRequests)
    \/ LoadDataReturn(1)
    \/ ReviewApply(1)
    \/ SaveDataReturn(1)

SpecWeek == InitWeek /\ [][NextWeek]_vars

\* ------------------------------------------------------------------ claims
\* The persisted document, as a request would load it.
Doc == LoadData(file)

\* The days on which the penalty for habit id is recorded in document d.
PenaltyDays(d, id) ==
    {day \in DOMAIN d.history :
        containsInt(d.history[day].penaltyAppliedForHabits, id)}

\* Goroutine p runs ProcessYesterdayMisses in this step.
ProcessStep(p) ==
    /\ req[p].kind = "index"
    /\ pc[p] \in {"loaded", "saved_created"}
    /\ pc'[p] = "saving"

\* C1: every habit of the persisted document, and of every copy of it a
\* request holds, has quantity >= 1, whatever requests were served before.
C1_QuantityAtLeastOne ==
    /\ \A i \in 1..Len(Doc.habits) : Doc.habits[i].quantity >= 1
    /\ \A p \in Procs : \A i \in 1..Len(data[p].habits) :
          data[p].habits[i].quantity >= 1

\* A habit sits at the floor 1 with the penalty recorded for two days.
C1_Witness ==
    \E i \in 1..Len(Doc.habits) :
        /\ Doc.habits[i].quantity = 1
        /\ Cardinality(PenaltyDays(Doc, Doc.habits[i].id)) >= 2

\* C2: a habit that starts at quantity 5 and was not penalised for the day
\* before its creation has quantity 5, 3, 2, 1, 1, ... after 0, 1, 2, 3, 4, ...
\* missed days for which the view was rendered on the following day.
DecaySequence(n) == IF n = 0 THEN 5 ELSE IF n = 1 THEN 3 ELSE IF n = 2 THEN 2 ELSE 1

C2_DecaySequence ==
    \A i \in 1..Len(Doc.habits) :
        LET h == Doc.habits[i]
            missed == {d \in PenaltyDays(Doc, h.id) : d >= h.createdAt}
        IN  PenaltyDays(Doc, h.id) = missed
                => h.quantity = DecaySequence(Cardinality(missed))

\* C3: one ApplyMissPenalty call takes q >= 3 to q - 2, q = 2 to 1 and leaves
\* q <= 1; the result is never above q and never below 1.  Stated of every
\* habit in the step in which a render runs ProcessYesterdayMisses.
PenaltyRule(q) == IF q >= 3 THEN q - 2 ELSE IF q = 2 THEN 1 ELSE q

C4_Idempotent ==
    [][\A p \in Procs : ProcessStep(p) =>
          ProcessYesterdayMisses(data'[p], Yesterday) = data'[p]]_vars

\* The first call did change the document: a quantity went down and the
\* penalty was recorded.
C4_Witness ==
    \E p \in Procs : \E i \in 1..Len(data[p].habits) :
        /\ pc[p] = "saving" /\ req[p].kind = "index"
        /\ Len(Doc.habits) = Len(data[p].habits)
        /\ data[p].habits[i].quantity < Doc.habits[i].quantity
        /\ containsInt(HistoryAt(data[p], Yesterday).penaltyAppliedForHabits,
                       data[p].habits[i].id)
        /\ ProcessYesterdayMisses(data[p], Yesterday) = data[p]

\* C5: a render never penalises a habit that was added today: its quantity
\* stays and its id is not newly recorded in yesterday's
\* penaltyAppliedForHabits.
C5_NewHabitExempt ==
    [][\A p \in Procs : ProcessStep(p) =>
          \A i \in 1..Len(data[p].habits) :
             LET h == data[p].habits[i]
             IN  h.createdAt = today =>
                    /\ data'[p].habits[i].quantity = h.quantity
                    /\ PenaltyDays(data'[p], h.id) = PenaltyDays(data[p], h.id)]_vars

\* C6: when concurrent renders of one day have all returned, every habit not
\* completed yesterday is exactly one penalty step below the quantity it had
\* when the day began, and its id is once in yesterday's
\* penaltyAppliedForHabits.
Occurrences(slice, id) == Cardinality({k \in 1..Len(slice) : slice[k] = id})

C6_PenaltyOnce ==
    (/\ \A p \in Procs : pc[p] = "idle"
     /\ \E p \in Procs : resp[p] = "page")
    => /\ Len(Doc.habits) = Len(day0.habits)
       /\ \A i \in 1..Len(day0.habits) :
             LET h0 == day0.habits[i]
             IN  ~containsInt(HistoryAt(day0, Yesterday).completedHabits, h0.id)
                 => /\ Doc.habits[i].id = h0.id
                    /\ Doc.habits[i].quantity = PenaltyRule(h0.quantity)
                    /\ Occurrences(HistoryAt(Doc, Yesterday).penaltyAppliedForHabits,
                                   h0.id) = 1

\* Two renders overlapped: the second loaded before the first saved, and both
\* have returned; a habit went down by 2.
C6_Witness ==
    /\ \A p \in Procs : pc[p] = "idle" /\ resp[p] = "page"
    /\ nreq = 2
    /\ \E i \in 1..Len(day0.habits) :
          /\ day0.habits[i].quantity >= 3
          /\ Doc.habits[i].quantity = day0.habits[i].quantity - 2

\* C7: a habit id recorded in a date's penaltyAppliedForHabits of the
\* persisted document is there in every later persisted document.
C7_PenaltyNeverCleared ==
    [][\A day \in DOMAIN Doc.history :
          \A k \in 1..Len(Doc.history[day].penaltyAppliedForHabits) :
             LET id == Doc.history[day].penaltyAppliedForHabits[k]
             IN  day \in PenaltyDays(LoadData(file'), id)]_vars

\* C8: at most one goroutine is inside LoadData or SaveData, and mu is held
\* exactly by that goroutine.
InStorage(p) == pc[p] \in {"loading", "saving_created", "saving"}

C8_MutualExclusion ==
    /\ Cardinality({p \in Procs : InStorage(p)}) <= 1
    /\ \A p \in Procs : InStorage(p) <=> mu = p

\* One request is inside SaveData while another, which has loaded, waits.
C8_Witness ==
    \E p, q \in Procs :
        /\ p # q
        /\ pc[p] = "saving"
        /\ pc[q] = "loaded"

\* C9: requests are serialized in the order of their saves: what a request
\* hands to SaveData is what the same request would have produced had it run
\* alone on the document persisted at that moment, so its save overwrites no
\* update another request persisted since it loaded.
SetCreatedAt(d) == IF d.createdAt = NoDate THEN [d EXCEPT !.createdAt = Today] ELSE d

RunAlone(f, d, last) ==
    CASE f.kind = "index" /\ ~last -> SetCreatedAt(d)
      [] f.kind = "index" /\ last -> ProcessYesterdayMisses(SetCreatedAt(d), Yesterday)
      [] f.kind = "complete" ->
            IF FindHabitByID(d, Atoi(f.habit_id).n) = 0 THEN d
            ELSE CompleteHabit(d, Atoi(f.habit_id).n, f.action, Today)
      [] f.kind = "review" -> CompleteWeekReview(d, Today)
      [] f.kind = "add" -> AddHabit(d, f, Today)
      [] f.kind = "edit" ->
            IF FindHabitByID(d, Atoi(f.habit_id).n) = 0 THEN d
            ELSE EditHabit(d, FindHabitByID(d, Atoi(f.habit_id).n), f)
      [] f.kind = "delete" -> DeleteHabit(d, f)

C9_Serialized ==
    [][\A p \in Procs :
          (pc[p] \in {"loaded", "saved_created"}
              /\ pc'[p] \in {"saving_created", "saving"})
          => data'[p] = RunAlone(req[p], Doc, pc'[p] = "saving")]_vars

\* C10: no two habits of the persisted document have the same id.
UniqueIds(d) ==
    \A i, j \in 1..Len(d.habits) : i # j => d.habits[i].id # d.habits[j].id

C10_UniqueIds == UniqueIds(Doc) /\ \A p \in Procs : UniqueIds(data[p])

\* An add-habit that loaded before another add-habit saved is about to save
\* a habit with the id the other one already persisted.
C10_Witness ==
    \E p \in Procs :
        /\ pc[p] = "saving" /\ req[p].kind = "add"
        /\ Len(Doc.habits) >= 1
        /\ data[p].habits[Len(data[p].habits)].id = Doc.habits[Len(Doc.habits)].id
        /\ data[p] # Doc

\* Goroutine p appends a new habit to its AppData (ID: NextHabitID(data)).
AddStep(p) == Loaded(p, "add") /\ pc'[p] = "saving"

\* C11: habit ids are never reused after deletion: the id given to a newly
\* added habit differs from the id of every habit created before it, the
\* deleted ones included.
C11_NeverReused ==
    [][\A p \in Procs :
          AddStep(p)
          => data'[p].habits[Len(data'[p].habits)].id \notin issued]_vars

\* Goroutine p runs CompleteWeekReview on its AppData.
ReviewStep(p) == Loaded(p, "review") /\ pc'[p] = "saving"

\* C12: completeWeekReview adds exactly 1 to the quantity of every habit, sets
\* lastWeekReview to today and changes nothing else (habit list, ids, names,
\* units, history, createdAt); needsWeekReview evaluated right afterwards on
\* the same day is false.
C12_WeekReview ==
    [][\A p \in Procs :
          ReviewStep(p)
          => /\ Len(data'[p].habits) = Len(data[p].habits)
             /\ \A i \in 1..Len(data[p].habits) :
                   data'[p].habits[i] =
                       [data[p].habits[i] EXCEPT
                           !.quantity = data[p].habits[i].quantity + 1]
             /\ data'[p].lastWeekReview = today
             /\ data'[p].history = data[p].history
             /\ data'[p].createdAt = data[p].createdAt
             /\ ~NeedsWeekReview(data'[p])]_vars

\* A review that was due has been completed and saved on the same day.
C12_Witness ==
    /\ nreq > 0
    /\ pc[1] = "idle"
    /\ resp[1] = "redirect"
    /\ Doc.lastWeekReview = today
    /\ Doc.createdAt # NoDate
    /\ today - Doc.createdAt >= 7
    /\ Len(Doc.habits) > 0

\* Goroutine p's render saves and executes the page.
RenderStep(p) == pc[p] = "saving" /\ req[p].kind = "index" /\ pc'[p] = "idle"

\* The anchor of the review cycle: lastWeekReview when set, else createdAt.
Anchor(d) == IF d.lastWeekReview # NoDate THEN d.lastWeekReview ELSE d.createdAt

\* C13: needsWeekReview is true if and only if the number of days from the
\* anchor to today is at least 7 (6 days: false, 7 days: true), the anchor
\* being lastWeekReview when set, otherwise createdAt when set.
C13_NeedsWeekReview ==
    [][\A p \in Procs :
          RenderStep(p) /\ Anchor(data[p]) # NoDate
          => (view'[p].needsWeekReview <=> today - Anchor(data[p]) >= 7)]_vars

\* A page rendered exactly 7 days after a completed review shows the review
\* as due, although the store was created more than 7 days before.
C13_Witness ==
    /\ pc[1] = "idle"
    /\ resp[1] = "page"
    /\ view[1].needsWeekReview
    /\ Doc.lastWeekReview # NoDate
    /\ today - Doc.lastWeekReview = 7
    /\ Doc.createdAt # NoDate
    /\ Doc.createdAt < Doc.lastWeekReview

\* Neither anchor of the review cycle is set in d.
NoAnchor(d) == d.lastWeekReview = NoDate /\ d.createdAt = NoDate

\* C14 as stated: a freshly created store never starts review-overdue: with
\* neither lastWeekReview nor createdAt set, needsWeekReview uses the
\* fallback anchor today minus 7 days and returns false.
C14_FallbackNotDue == NoAnchor(Doc) => ~NeedsWeekReview(Doc)

\* C14, amended: a freshly created store never starts review-overdue because
\* HandleIndex sets createdAt to today before it evaluates needsWeekReview,
\* which is then false on that day and never sees a document without an
\* anchor; needsWeekReview itself, given neither lastWeekReview nor
\* createdAt, uses the fallback anchor today minus 7 days and returns true.
C14_FreshStore ==
    /\ [](NoAnchor(Doc) => NeedsWeekReview(Doc))
    /\ [][\A p \in Procs :
             /\ Loaded(p, "index") /\ NoAnchor(data[p]) /\ pc'[p] # "loaded"
                => /\ pc'[p] = "saving_created"
                   /\ data'[p].createdAt = today
                   /\ ~NeedsWeekReview(data'[p])
             /\ RenderStep(p)
                => /\ ~NoAnchor(data[p])
                   /\ Anchor(data[p]) = today => ~view'[p].needsWeekReview]_vars

\* The first page of a fresh store has been rendered: createdAt is today and
\* the review is not shown as due.
C14_Witness ==
    /\ nreq = 1
    /\ pc[1] = "idle"
    /\ resp[1] = "page"
    /\ ~view[1].needsWeekReview
    /\ Doc.createdAt = today
    /\ Doc.lastWeekReview = NoDate

\* Goroutine p found the habit and changes today's completedHabits.
CompleteStep(p) == Loaded(p, "complete") /\ pc'[p] = "saving"

\* The ids in today's completedHabits of d.
CompletedToday(d) ==
    {HistoryAt(d, today).completedHabits[i] :
        i \in 1..Len(HistoryAt(d, today).completedHabits)}

\* Today's completed set of p's AppData once the complete request p serves is
\* followed by an uncomplete request for the same habit.
Toggled(p) ==
    CompletedToday(CompleteHabit(data'[p], Atoi(req[p].habit_id).n,
                                 "uncomplete", today))

\* C15 as stated: for every state and every existing habit, a complete request
\* followed by an uncomplete request leaves today's completed set with
\* exactly its original contents.
C15_ToggleTwice ==
    [][\A p \in Procs :
          CompleteStep(p) /\ req[p].action # "uncomplete"
          => Toggled(p) = CompletedToday(data[p])]_vars

\* C15, amended: for every state and every existing habit not already
\* completed today, a complete request followed by an uncomplete request
\* leaves today's completed set with exactly its original contents.
C15_ToggleTwiceFromOpen ==
    [][\A p \in Procs :
          /\ CompleteStep(p)
          /\ req[p].action # "uncomplete"
          /\ Atoi(req[p].habit_id).n \notin CompletedToday(data[p])
          => Toggled(p) = CompletedToday(data[p])]_vars

\* A complete request has put a habit that was open into today's record,
\* next to a habit completed before.
C15_Witness ==
    /\ pc[1] = "saving"
    /\ req[1].kind = "complete"
    /\ req[1].action # "uncomplete"
    /\ Atoi(req[1].habit_id).n \in CompletedToday(data[1])
    /\ Atoi(req[1].habit_id).n \notin CompletedToday(Doc)
    /\ CompletedToday(Doc) # {}

\* No id occurs twice in slice.
NoDuplicates(slice) ==
    \A i, j \in 1..Len(slice) : slice[i] = slice[j] => i = j

\* No DayRecord of d has an id twice in its completedHabits.
DuplicateFree(d) ==
    \A day \in DOMAIN d.history : NoDuplicates(d.history[day].completedHabits)

\* C16: completion is idempotent and duplicate-free: in every reachable state
\* each habit id occurs at most once in the completedHabits of any DayRecord
\* (of data.json and of every request's AppData), and repeating a complete,
\* or an uncomplete, request for the same habit on the same day leaves the
\* document as it was after the first.
C16_IdempotentToggle ==
    /\ [](DuplicateFree(Doc) /\ \A p \in Procs : DuplicateFree(data[p]))
    /\ [][\A p \in Procs :
             CompleteStep(p)
             => CompleteHabit(data'[p], Atoi(req[p].habit_id).n,
                              req[p].action, today) = data'[p]]_vars

\* Two requests for the only habit, which was open, have been saved on the
\* day the run began, and the habit is in today's record.
C16_Witness ==
    /\ nreq = 2
    /\ \A p \in Procs : pc[p] = "idle" /\ resp[p] = "redirect"
    /\ today = 0
    /\ CompletedToday(day0) = {}
    /\ CompletedToday(Doc) # {}
    /\ Len(Doc.habits) = 1

\* d has a record for day whose completedHabits holds id.
DoneOn(d, id, day) ==
    /\ day \in DOMAIN d.history
    /\ \E i \in 1..Len(d.history[day].completedHabits) :
          d.history[day].completedHabits[i] = id

\* C17: getStreakForHabit returns N exactly when the N days immediately
\* before today all have a record whose completed set holds the habit and
\* the (N+1)-th day back does not; it returns 0 when yesterday's record is
\* absent or lacks the habit, and today's completion does not count.
C17_Streak ==
    [][\A p \in Procs :
          RenderStep(p)
          => \A id \in HabitIDs(data[p]) :
                LET N == view'[p].streaks[id]
                IN  /\ N >= 0
                    /\ \A k \in 1..N : DoneOn(data[p], id, today - k)
                    /\ ~DoneOn(data[p], id, today - (N + 1))
                    /\ ~DoneOn(data[p], id, today - 1) => N = 0]_vars

\* The rendered page gives habit 1 a streak of 2: it was completed yesterday
\* and the day before, not the day before that, and is completed today too.
C17_Witness ==
    /\ pc[1] = "idle"
    /\ resp[1] = "page"
    /\ 1 \in DOMAIN view[1].streaks
    /\ view[1].streaks[1] = 2
    /\ DoneOn(Doc, 1, today)
    /\ DoneOn(Doc, 1, today - 1)
    /\ DoneOn(Doc, 1, today - 2)
    /\ ~DoneOn(Doc, 1, today - 3)

\* Goroutine p's request writes data.json in this step.
SaveStep(p) == pc[p] \in {"saving", "saving_created"} /\ pc'[p] # pc[p]

\* No habit of d has a larger quantity in e, and no habit of e is below 1.
NoIncrease(d, e) ==
    /\ \A j \in 1..Len(e.habits) : e.habits[j].quantity >= 1
    /\ \A i \in 1..Len(d.habits) : \A j \in 1..Len(e.habits) :
          d.habits[i].id = e.habits[j].id
          => e.habits[j].quantity <= d.habits[i].quantity

\* The edit-habit form f supplies a quantity the handler takes.
SuppliesQuantity(f) ==
    f.quantity.text # "empty" /\ ~Atoi(f.quantity).err /\ Atoi(f.quantity).n > 0

\* C18 as stated: in any sequence of operations without a complete-week-review
\* a habit's quantity never increases from one persisted state to the next
\* and never goes below 1.
C18_Monotonic ==
    [][\A p \in Procs :
          SaveStep(p) /\ req[p].kind # "review"
          => NoIncrease(Doc, Doc')]_vars

\* C18, amended: in any sequence of operations with no complete-week-review
\* and no edit-habit that supplies a positive quantity, a habit's quantity
\* never increases from one persisted state to the next and never goes
\* below 1.
C18_MonotonicNoEdit ==
    [][\A p \in Procs :
          /\ SaveStep(p)
          /\ req[p].kind # "review"
          /\ ~(req[p].kind = "edit" /\ SuppliesQuantity(req[p]))
          => NoIncrease(Doc, Doc')]_vars

\* A render has lowered the quantity of a stored habit.
C18_Witness ==
    /\ pc[1] = "saving"
    /\ req[1].kind = "index"
    /\ \E i \in 1..Len(Doc.habits) :
          /\ i <= Len(data[1].habits)
          /\ data[1].habits[i].id = Doc.habits[i].id
          /\ data[1].habits[i].quantity < Doc.habits[i].quantity

\* Goroutine p takes the add-habit or edit-habit request with form f.
Handles(p, f) ==
    IF f.kind = "add" THEN HandleAddHabit(p, f, MaxSeqRequests)
    ELSE HandleEditHabit(p, f, MaxSeqRequests)

\* The name of f is empty once the white space around it is taken off.
EmptyName(f) == f.name \in {"", " "}

\* The quantity of f is a number that is not positive.
NonPositiveQuantity(f) == ~Atoi(f.quantity).err /\ Atoi(f.quantity).n <= 0

\* Goroutine p answers an error in this step and data.json is as it was.
Rejected(p) ==
    /\ pc'[p] = "idle"
    /\ resp'[p] \in {"error=name", "error=invalid"}
    /\ file' = file

\* Goroutine p changes the habit its edit-habit request names.
EditStep(p) == Loaded(p, "edit") /\ pc'[p] = "saving"

\* C19 as stated: an add-habit or edit-habit request with an empty name or a
\* non-positive quantity is rejected with an error, and the persisted document
\* is the same before and after it.
C19_InvalidRejected ==
    [][\A p \in Procs : \A f \in SeqAddForms \cup SeqEditForms :
          Handles(p, f) /\ (EmptyName(f) \/ NonPositiveQuantity(f))
          => Rejected(p)]_vars

\* C19, amended: an add-habit or edit-habit request with an empty name is
\* rejected with error=name (error=invalid when the habit_id of an edit-habit
\* is not a number) and the persisted document is the same before and after
\* it; a quantity that is not a positive number is not an error: add-habit
\* stores the default quantity 5 and edit-habit keeps the habit's quantity,
\* and the request takes effect otherwise.
C19_EmptyNameRejected ==
    [][\A p \in Procs :
          /\ \A f \in SeqAddForms \cup SeqEditForms :
                Handles(p, f) /\ EmptyName(f)
                => /\ Rejected(p)
                   /\ resp'[p] = IF f.kind = "edit" /\ Atoi(f.habit_id).err
                                 THEN "error=invalid" ELSE "error=name"
          /\ AddStep(p) /\ ~SuppliesQuantity(req[p])
                => data'[p].habits[Len(data'[p].habits)].quantity = 5
          /\ EditStep(p) /\ ~SuppliesQuantity(req[p])
                => \A i \in 1..Len(data[p].habits) :
                      /\ data'[p].habits[i].quantity = data[p].habits[i].quantity
                      /\ data[p].habits[i].id = Atoi(req[p].habit_id).n
                         => data'[p].habits[i].name = req[p].name]_vars

\* An add-habit request with a blank name has been answered error=name with
\* a habit stored, and the habit is still there.
C19_Witness ==
    /\ pc[1] = "idle"
    /\ resp[1] = "error=name"
    /\ Len(Doc.habits) > 0

\* A SaveData of goroutine p's request fails in this step (and the step is
\* not also that of a SaveData that succeeds).
PersistFails(p) ==
    \/ SaveDataFail(p) /\ ~SaveDataReturn(p)
    \/ SaveCreatedFail(p) /\ ~SaveCreatedReturn(p)

\* C20: every mutating operation whose persist step fails reports failure to
\* the caller, never success, and leaves the persisted document as it was
\* before the operation.
C20_PersistFailureReported ==
    [][\A p \in Procs :
          PersistFails(p)
          => /\ pc'[p] = "idle"
             /\ resp'[p] = "500"
             /\ file' = file]_vars

\* C21: one processYesterdayMisses call leaves the quantity of every habit
\* that is in yesterday's completedHabits or already in yesterday's
\* penaltyAppliedForHabits as it is; every other habit gets applyMissPenalty
\* once and its id added, once, to yesterday's penaltyAppliedForHabits, also
\* when its quantity is already 1.  Stated of the step in which a render
\* runs ProcessYesterdayMisses.
C21_ProcessEffect ==
    [][\A p \in Procs : ProcessStep(p) =>
          /\ Len(data'[p].habits) = Len(data[p].habits)
          /\ \A i \in 1..Len(data[p].habits) :
                LET h == data[p].habits[i]
                    before == HistoryAt(data[p], Yesterday)
                    after == HistoryAt(data'[p], Yesterday)
                IN  IF \/ Occurrences(before.completedHabits, h.id) > 0
                       \/ Occurrences(before.penaltyAppliedForHabits, h.id) > 0
                    THEN /\ data'[p].habits[i] = h
                         /\ Occurrences(after.penaltyAppliedForHabits, h.id)
                               = Occurrences(before.penaltyAppliedForHabits, h.id)
                    ELSE /\ data'[p].habits[i] =
                               [h EXCEPT !.quantity = PenaltyRule(h.quantity)]
                         /\ Occurrences(after.penaltyAppliedForHabits, h.id) = 1]_vars

\* A render has run ProcessYesterdayMisses on a habit completed yesterday and
\* a habit at quantity 1 that was not: the first is as it was, the id of the
\* second is recorded.
C21_Witness ==
    \E p \in Procs : \E i, j \in 1..Len(data[p].habits) :
        /\ pc[p] = "saving" /\ req[p].kind = "index"
        /\ Len(Doc.habits) = Len(data[p].habits)
        /\ containsInt(HistoryAt(Doc, Yesterday).completedHabits, Doc.habits[i].id)
        /\ data[p].habits[i] = Doc.habits[i]
        /\ Doc.habits[j].quantity = 1
        /\ data[p].habits[j].quantity = 1
        /\ ~containsInt(HistoryAt(Doc, Yesterday).penaltyAppliedForHabits, Doc.habits[j].id)
        /\ containsInt(HistoryAt(data[p], Yesterday).penaltyAppliedForHabits, Doc.habits[j].id)

\* C22: no retroactive replay.  processYesterdayMisses changes only the
\* DayRecord of yesterday: every other date's record, every completedHabits,
\* the habits in the list, lastWeekReview and createdAt stay as they are; a
\* day whose following day saw no render is not penalised later, so a render
\* after a gap of several days takes each habit down by at most one penalty
\* step.
C22_NoReplay ==
    [][\A p \in Procs : ProcessStep(p) =>
          LET d == data[p]
              e == data'[p]
          IN  /\ DOMAIN d.history \subseteq DOMAIN e.history
              /\ DOMAIN e.history \subseteq DOMAIN d.history \cup {Yesterday}
              /\ \A day \in DOMAIN d.history :
                    day # Yesterday => e.history[day] = d.history[day]
              /\ HistoryAt(e, Yesterday).completedHabits
                    = HistoryAt(d, Yesterday).completedHabits
              /\ Len(e.habits) = Len(d.habits)
              /\ \A i \in 1..Len(d.habits) :
                    /\ e.habits[i].id = d.habits[i].id
                    /\ e.habits[i].quantity
                          \in {d.habits[i].quantity,
                               PenaltyRule(d.habits[i].quantity)}
              /\ e.lastWeekReview = d.lastWeekReview
              /\ e.createdAt = d.createdAt]_vars

\* A render two days after a habit was added, with no render in between, has
\* taken the habit down one step and recorded it for yesterday only.
C22_Witness ==
    \E i \in 1..Len(Doc.habits) :
        /\ pc[1] = "saving" /\ req[1].kind = "index"
        /\ Len(data[1].habits) = Len(Doc.habits)
        /\ Doc.habits[i].createdAt <= today - 2
        /\ Doc.habits[i].quantity >= 3
        /\ data[1].habits[i].quantity = Doc.habits[i].quantity - 2
        /\ PenaltyDays(Doc, Doc.habits[i].id) = {}
        /\ PenaltyDays(data[1], Doc.habits[i].id) = {today - 1}

\* Goroutine p filters the habit list of its AppData.
DeleteStep(p) == Loaded(p, "delete") /\ pc'[p] = "saving"

\* C23: delete-habit removes exactly the habit with the given id and nothing
\* else: the other habits keep their place, id, name, quantity and unit, and
\* every DayRecord, entries naming the deleted id included, is unchanged;
\* deleting an id no habit has leaves the whole document unchanged.
C23_DeleteExactly ==
    [][\A p \in Procs : DeleteStep(p) =>
          LET d == data[p]
              e == data'[p]
              kept == {i \in 1..Len(d.habits) :
                          ~(/\ req[p].habit_id.text = "int"
                            /\ d.habits[i].id = req[p].habit_id.val)}
          IN  /\ Len(e.habits) = Cardinality(kept)
              /\ \A i \in kept :
                    e.habits[Cardinality({k \in kept : k <= i})] = d.habits[i]
              /\ e.history = d.history
              /\ e.lastWeekReview = d.lastWeekReview
              /\ e.createdAt = d.createdAt
              /\ kept = 1..Len(d.habits) => e = d]_vars

\* The habit with id 1 has been taken off the list while the history still
\* names id 1.
C23_Witness ==
    /\ pc[1] = "saving"
    /\ req[1].kind = "delete"
    /\ 1 \in HabitIDs(Doc)
    /\ 1 \notin HabitIDs(data[1])
    /\ \E day \in DOMAIN data[1].history :
          \/ containsInt(data[1].history[day].completedHabits, 1)
          \/ containsInt(data[1].history[day].penaltyAppliedForHabits, 1)

\* C24: decay reaches the floor.  When a habit is missed every day and the
\* view is rendered on every following day, with no week review and no edit,
\* its quantity eventually is 1 and stays 1 from then on.
C24_DecayReachesFloor ==
    <>[](\A i \in 1..Len(Doc.habits) : Doc.habits[i].quantity = 1)

\* A habit that began at 5 or more is at 1 after three or more penalties.
C24_Witness ==
    \E i \in 1..Len(Doc.habits) :
        /\ day0.habits[i].quantity >= 5
        /\ Doc.habits[i].quantity = 1
        /\ Cardinality(PenaltyDays(Doc, Doc.habits[i].id)) >= 3
        /\ pc[1] = "idle"

\* C25: the week review is advisory and unguarded.  complete-week-review is
\* accepted in every state, whatever needsWeekReview says, and each accepted
\* invocation adds 1 to the quantity of every habit: k invocations on one
\* day raise each quantity by k.
C25_UnguardedReview ==
    /\ pc[1] = "idle" /\ nreq < MaxWeekRequests
          => ENABLED HandleWeekReview(1, MaxWeekRequests)
    /\ Loaded(1, "review") => ENABLED ReviewApply(1)
    /\ pc[1] = "idle"
          => /\ Len(Doc.habits) = Len(day0.habits)
             /\ \A i \in 1..Len(day0.habits) :
                   Doc.habits[i].quantity = day0.habits[i].quantity + nreq

\* MaxWeekRequests reviews have been completed on a day on which none was
\* due.
C25_Witness ==
    /\ pc[1] = "idle"
    /\ resp[1] = "redirect"
    /\ nreq = MaxWeekRequests
    /\ today = 0
    /\ ~NeedsWeekReview(day0)
    /\ \A i \in 1..Len(day0.habits) :
          Doc.habits[i].quantity = day0.habits[i].quantity + MaxWeekRequests

====
